---- MODULE Spec2Model ----
(***************************************************************************)
(* docs/tutorials/visualization_tutorial.ipynb: the three definitions of   *)
(* agent_portrayal (Part 1, Part 2, Part 3) and the custom solara          *)
(* component Histogram of Part 3, run against a model whose agents carry   *)
(* a wealth attribute.                                                     *)
(*                                                                         *)
(* An agent is a record of its attributes: [unique_id, wealth], or         *)
(* [unique_id] alone for an agent that has no wealth attribute.            *)
(* model.agents is the sequence of the agents in iteration order (an       *)
(* AgentSet iterates in insertion order, and unique_id counts up with      *)
(* insertion).                                                             *)
(***************************************************************************)
EXTENDS Integers, Sequences, FiniteSets, TLC

\* ------------------------------------------------------------------ bounds

\* The largest number of agents of a model.
MaxAgents == 3

\* The wealth values of the dashboard's models: 0, 1, 2, MaxWealth - 1, MaxWealth.
MaxWealth == 10

\* The wealth values the functions are called on directly run from
\* -MaxDebt to MaxCredit.
MaxDebt == 1

MaxCredit == 1

\* The number of model changes (steps and resets) of a run.
MaxUpdates == 2

\* The number of invocations of Histogram not caused by a re-render trigger
\* (the page's first render, the cell Histogram(money_model)).
MaxDirect == 2

\* -------------------------------------------------------- program constants

\* ax.hist(wealth_vals, bins=10)
Bins == 10

VARIABLES
    agents,          \* model.agents: the sequence of agent records
    update_counter,  \* mesa.visualization.utils.update_counter's value
    subscribed,      \* Histogram's last render read update_counter
    pending,         \* a re-render of Histogram is scheduled
    pc,              \* the line Histogram executes next, or "idle"
    fig,             \* Histogram's local fig: the figure object
    wealth_vals,     \* Histogram's local wealth_vals
    displayed,       \* the figure last handed to solara.FigureMatplotlib
    nfigures,        \* the number of Figure() objects created so far
    ndisplayed,      \* the number of figures handed to FigureMatplotlib
    calls,           \* the number of invocations of Histogram so far
    rerenders,       \* those of them a re-render trigger caused
    raised,          \* the last invocation ended in an AttributeError
    trace,           \* what the current invocation has done, in order
    portrayed        \* the last call of agent_portrayal: part, agent, outcome

vars == <<agents, update_counter, subscribed, pending, pc, fig, wealth_vals,
          displayed, nfigures, ndisplayed, calls, rerenders, raised, trace,
          portrayed>>

histVars == <<update_counter, subscribed, pending, pc, fig, wealth_vals,
              displayed, nfigures, ndisplayed, calls, rerenders, raised, trace>>

\* ------------------------------------------------------------------ agents

\* An agent with a wealth attribute.
Agent(id, w) == [unique_id |-> id, wealth |-> w]

\* An agent without one.
BareAgent(id) == [unique_id |-> id]

\* hasattr(agent, "wealth")
HasWealth(agent) == "wealth" \in DOMAIN agent

\* The wealth values of the models the dashboard shows.
DashboardWealths == {0, 1, 2, MaxWealth - 1, MaxWealth}

\* The wealth values of the models the functions are called on directly.
CallWealths == (0 - MaxDebt)..MaxCredit

\* The agent collections of n agents with wealth drawn from W; with bare,
\* any of the agents may lack the attribute.
AgentsOf(n, W, bare) ==
    { [i \in 1..n |-> IF i \in lacking THEN BareAgent(i) ELSE Agent(i, ws[i])] :
        ws \in [1..n -> W],
        lacking \in (IF bare THEN SUBSET (1..n) ELSE {{}}) }

\* MoneyModel(n, width, height): n new agents, all of the same wealth w.
MoneyModel(n, w) == [i \in 1..n |-> Agent(i, w)]

\* --------------------------------------------------------- agent_portrayal

\* What a call comes to: a returned value or a raised exception.
Returned(v) == [kind |-> "return", value |-> v]

Raises(e) == [kind |-> "raise", error |-> e]

\* Part 1: constant, never reads wealth.
agent_portrayal_1(agent) ==
    Returned([color |-> "tab:blue", size |-> 50])

\* Part 2 with the test written wealth >= 0.
agent_portrayal_2_NonNegative(agent) ==
    IF ~HasWealth(agent) THEN Raises("AttributeError")
    ELSE IF agent.wealth >= 0
         THEN Returned([size |-> 50, color |-> "tab:blue"])
         ELSE Returned([size |-> 10, color |-> "tab:red"])

\* Part 2 with the marker sized by the agent's id.
agent_portrayal_2_ById(agent) ==
    IF ~HasWealth(agent) THEN Raises("AttributeError")
    ELSE IF agent.wealth > 0
         THEN Returned([size |-> 50 * agent.unique_id, color |-> "tab:blue"])
         ELSE Returned([size |-> 10 * agent.unique_id, color |-> "tab:red"])

\* Part 2.
agent_portrayal_2(agent) ==
    IF ~HasWealth(agent) THEN Raises("AttributeError")
    ELSE IF agent.wealth > 0
         THEN Returned([size |-> 50, color |-> "tab:blue"])
         ELSE Returned([size |-> 10, color |-> "tab:red"])

\* Part 3 with size left at 10 in the branch.
agent_portrayal_3_SizeNotSet(agent) ==
    IF ~HasWealth(agent) THEN Raises("AttributeError")
    ELSE IF agent.wealth > 0
         THEN Returned([size |-> 10, color |-> "tab:blue"])
         ELSE Returned([size |-> 10, color |-> "tab:red"])

\* Part 3 with the test written wealth >= 0, Part 2 left as it is.
agent_portrayal_3_NonNegative(agent) ==
    IF ~HasWealth(agent) THEN Raises("AttributeError")
    ELSE IF agent.wealth >= 0
         THEN Returned([size |-> 50, color |-> "tab:blue"])
         ELSE Returned([size |-> 10, color |-> "tab:red"])

\* Part 3.
agent_portrayal_3(agent) ==
    IF ~HasWealth(agent) THEN Raises("AttributeError")
    ELSE IF agent.wealth > 0
         THEN Returned([size |-> 50, color |-> "tab:blue"])
         ELSE Returned([size |-> 10, color |-> "tab:red"])

\* The definition of the notebook's part `part`.
agent_portrayal(part, agent) ==
    CASE part = 1 -> agent_portrayal_1(agent)
      [] part = 2 -> agent_portrayal_2(agent)
      [] part = 3 -> agent_portrayal_3(agent)

\* The agent after a call of agent_portrayal: no definition assigns to it.
AgentAfterPortrayal(agent) == agent

\* ---------------------------------------------------------------- Histogram

\* No figure: what the display holds before anything was handed to it.
NoFigure == [id |-> 0, axes |-> FALSE, drawn |-> FALSE, bins |-> 0,
             data |-> <<>>, heights |-> <<>>]

\* fig = Figure(): a new, empty figure, the id-th created.
Figure(id) == [id |-> id, axes |-> FALSE, drawn |-> FALSE, bins |-> 0,
               data |-> <<>>, heights |-> <<>>]

\* ax = fig.subplots()
Subplots(f) == [f EXCEPT !.axes = TRUE]

\* every agent of the collection has the wealth attribute
AllHaveWealth(collection) ==
    \A i \in DOMAIN collection : HasWealth(collection[i])

\* The comprehension with a filter: [... for agent in model.agents if agent.wealth]
WealthValsOfSolvent(collection) ==
    SelectSeq([i \in 1..Len(collection) |-> collection[i].wealth],
              LAMBDA w : w # 0)

\* The list kept from call to call and extended.
WealthValsAccumulated(collection) ==
    wealth_vals \o [i \in 1..Len(collection) |-> collection[i].wealth]

\* [agent.wealth for agent in model.agents], when no access fails
WealthVals(collection) ==
    [i \in 1..Len(collection) |-> collection[i].wealth]

SeqMin(s) == CHOOSE x \in {s[i] : i \in DOMAIN s} :
                 \A j \in DOMAIN s : x <= s[j]

SeqMax(s) == CHOOSE x \in {s[i] : i \in DOMAIN s} :
                 \A j \in DOMAIN s : x >= s[j]

\* numpy.histogram's bin (1..bins) of value v among data spanning lo..hi:
\* bins equal-width bins over [lo, hi], each closed on the left, the last
\* closed on the right too; data of a single value lo = hi is binned over
\* [lo - 0.5, hi + 0.5], where v sits at the middle.
BinOf(v, lo, hi, bins) ==
    IF lo = hi THEN (bins \div 2) + 1
    ELSE IF v = hi THEN bins
    ELSE (((v - lo) * bins) \div (hi - lo)) + 1

\* The bar heights of numpy.histogram(vals, bins): the number of values in
\* each bin (all 0 for no data).
HistHeights(vals, bins) ==
    IF vals = <<>> THEN [b \in 1..bins |-> 0]
    ELSE LET lo == SeqMin(vals)
             hi == SeqMax(vals)
         IN [b \in 1..bins |->
                Cardinality({i \in DOMAIN vals : BinOf(vals[i], lo, hi, bins) = b})]

\* ax.hist(wealth_vals, bins=10) on the figure f
Hist(f, vals, bins) ==
    [f EXCEPT !.drawn = TRUE, !.bins = bins, !.data = vals,
              !.heights = HistHeights(vals, bins)]

\* The body with the last two lines in the other order.
HistogramFlowDisplayFirst(line) ==
    CASE line = "l300" -> "l303"
      [] line = "l303" -> "l304"
      [] line = "l304" -> "l305"
      [] line = "l305" -> "l309"
      [] line = "l309" -> "l308"
      [] line = "l308" -> "idle"

\* The control flow of Histogram's body: the line after each line.
HistogramFlow(line) ==
    CASE line = "l300" -> "l303"
      [] line = "l303" -> "l304"
      [] line = "l304" -> "l305"
      [] line = "l305" -> "l308"
      [] line = "l308" -> "l309"
      [] line = "l309" -> "idle"

\* def Histogram(model): a new invocation starts at the first line.
HistogramEnter ==
    /\ pc = "idle"
    /\ pc' = "l300"
    /\ calls' = calls + 1
    /\ trace' = <<>>
    /\ raised' = FALSE
    /\ subscribed' = FALSE
    /\ UNCHANGED <<agents, update_counter, fig, wealth_vals, displayed,
                   nfigures, ndisplayed, portrayed>>

\* The page's first render of the component, and the cell
\* Histogram(money_model): an invocation no trigger caused.
Invoke ==
    /\ ~pending
    /\ calls - rerenders < MaxDirect
    /\ HistogramEnter
    /\ UNCHANGED <<pending, rerenders>>

\* The first line without the read: nothing registers the component.
ReadCounterOmitted ==
    /\ pc = "l300"
    /\ trace' = Append(trace, "update_counter.get")
    /\ pc' = HistogramFlow("l300")
    /\ UNCHANGED <<agents, update_counter, subscribed, pending, fig, wealth_vals,
                   displayed, nfigures, ndisplayed, calls, rerenders, raised,
                   portrayed>>

\* update_counter.get(): reads the counter, which registers the component
\* for a re-render on the counter's next change.
ReadCounter ==
    /\ pc = "l300"
    /\ subscribed' = TRUE
    /\ trace' = Append(trace, "update_counter.get")
    /\ pc' = HistogramFlow("l300")
    /\ UNCHANGED <<agents, update_counter, pending, fig, wealth_vals, displayed,
                   nfigures, ndisplayed, calls, rerenders, raised, portrayed>>

\* fig = Figure()
NewFigure ==
    /\ pc = "l303"
    /\ nfigures' = nfigures + 1
    /\ fig' = Figure(nfigures + 1)
    /\ trace' = Append(trace, "Figure")
    /\ pc' = HistogramFlow("l303")
    /\ UNCHANGED <<agents, update_counter, subscribed, pending, wealth_vals,
                   displayed, ndisplayed, calls, rerenders, raised, portrayed>>

\* ax = fig.subplots()
NewAxes ==
    /\ pc = "l304"
    /\ fig' = Subplots(fig)
    /\ trace' = Append(trace, "subplots")
    /\ pc' = HistogramFlow("l304")
    /\ UNCHANGED <<agents, update_counter, subscribed, pending, wealth_vals,
                   displayed, nfigures, ndisplayed, calls, rerenders, raised,
                   portrayed>>

\* The comprehension passing over the agents that lack the attribute.
ExtractWealthSkipping ==
    /\ pc = "l305"
    /\ wealth_vals' = WealthVals(SelectSeq(agents, HasWealth))
    /\ trace' = Append(trace, "wealth_vals")
    /\ pc' = HistogramFlow("l305")
    /\ UNCHANGED <<agents, update_counter, subscribed, pending, fig, displayed,
                   nfigures, ndisplayed, calls, rerenders, raised, portrayed>>

\* wealth_vals = [agent.wealth for agent in model.agents]: the first agent
\* without the attribute raises AttributeError, which nothing catches, and
\* the invocation ends there.
ExtractWealth ==
    /\ pc = "l305"
    /\ IF AllHaveWealth(agents)
       THEN /\ wealth_vals' = WealthVals(agents)
            /\ trace' = Append(trace, "wealth_vals")
            /\ pc' = HistogramFlow("l305")
            /\ UNCHANGED raised
       ELSE /\ raised' = TRUE
            /\ trace' = Append(trace, "AttributeError")
            /\ pc' = "idle"
            /\ UNCHANGED wealth_vals
    /\ UNCHANGED <<agents, update_counter, subscribed, pending, fig, displayed,
                   nfigures, ndisplayed, calls, rerenders, portrayed>>

\* ax.hist(wealth_vals, bins=10)
DrawHist ==
    /\ pc = "l308"
    /\ fig.axes
    /\ fig' = Hist(fig, wealth_vals, Bins)
    /\ trace' = Append(trace, "hist")
    /\ pc' = HistogramFlow("l308")
    /\ UNCHANGED <<agents, update_counter, subscribed, pending, wealth_vals,
                   displayed, nfigures, ndisplayed, calls, rerenders, raised,
                   portrayed>>

\* solara.FigureMatplotlib(fig): the figure as it is now goes to the display.
Display ==
    /\ pc = "l309"
    /\ displayed' = fig
    /\ ndisplayed' = ndisplayed + 1
    /\ trace' = Append(trace, "FigureMatplotlib")
    /\ pc' = HistogramFlow("l309")
    /\ UNCHANGED <<agents, update_counter, subscribed, pending, fig, wealth_vals,
                   nfigures, calls, rerenders, raised, portrayed>>

\* ------------------------------------------------- the dashboard around it

\* The re-render the framework runs for a component that read the counter
\* before it changed.
Rerender ==
    /\ pending
    /\ pending' = FALSE
    /\ rerenders' = rerenders + 1
    /\ HistogramEnter

\* The model changes and the framework signals it: update_counter goes up,
\* and each component that read it is scheduled for a re-render.
Signal ==
    /\ update_counter' = update_counter + 1
    /\ pending' = subscribed

\* A step of the model (the step and play buttons): agents' wealth changes.
\* The buttons belong to the rendered page, and rendering is synchronous.
Step ==
    /\ pc = "idle" /\ ~pending /\ calls > 0
    /\ update_counter < MaxUpdates
    /\ \E i \in DOMAIN agents : \E w \in DashboardWealths :
          /\ w # agents[i].wealth
          /\ agents' = [agents EXCEPT ![i].wealth = w]
    /\ Signal
    /\ UNCHANGED <<subscribed, pc, fig, wealth_vals, displayed, nfigures,
                   ndisplayed, calls, rerenders, raised, trace, portrayed>>

\* A reset (a model parameter changed): a new model replaces the agents.
Reset ==
    /\ pc = "idle" /\ ~pending /\ calls > 0
    /\ update_counter < MaxUpdates
    /\ \E n \in 0..MaxAgents : \E w \in DashboardWealths :
          /\ MoneyModel(n, w) # agents
          /\ agents' = MoneyModel(n, w)
    /\ Signal
    /\ UNCHANGED <<subscribed, pc, fig, wealth_vals, displayed, nfigures,
                   ndisplayed, calls, rerenders, raised, trace, portrayed>>

\* The grid visualizer, or any caller, asks for one agent's portrayal.
PortrayalCall ==
    /\ pc = "idle"
    /\ \E part \in 1..3 : \E i \in DOMAIN agents :
          /\ portrayed' = [part |-> part, agent |-> i,
                           outcome |-> agent_portrayal(part, agents[i])]
          /\ agents' = [agents EXCEPT ![i] = AgentAfterPortrayal(agents[i])]
    /\ UNCHANGED histVars

\* ---------------------------------------------------------- specifications

NotCalled == [part |-> 0, agent |-> 0, outcome |-> [kind |-> "none"]]

InitRest ==
    /\ update_counter = 0
    /\ subscribed = FALSE
    /\ pending = FALSE
    /\ pc = "idle"
    /\ fig = NoFigure
    /\ wealth_vals = <<>>
    /\ displayed = NoFigure
    /\ nfigures = 0
    /\ ndisplayed = 0
    /\ calls = 0
    /\ rerenders = 0
    /\ raised = FALSE
    /\ trace = <<>>
    /\ portrayed = NotCalled

\* The Part 3 dashboard: a model of agents with wealth, before the page's
\* first render.
Init ==
    /\ \E n \in 0..MaxAgents : agents \in AgentsOf(n, DashboardWealths, FALSE)
    /\ InitRest

HistogramBody ==
    \/ ReadCounter
    \/ NewFigure
    \/ NewAxes
    \/ ExtractWealth
    \/ DrawHist
    \/ Display

Next ==
    \/ Invoke
    \/ Rerender
    \/ HistogramBody
    \/ Step
    \/ Reset

Spec == Init /\ [][Next]_vars

\* The functions called directly on a model that does not change, whose
\* agents may have any wealth, or none.
InitCalls ==
    /\ \E n \in 0..MaxAgents : agents \in AgentsOf(n, CallWealths, TRUE)
    /\ InitRest

NextCalls ==
    \/ Invoke
    \/ HistogramBody
    \/ PortrayalCall

SpecCalls == InitCalls /\ [][NextCalls]_vars

\* ------------------------------------------------------------------ claims

\* The agent the last call of agent_portrayal was made on.
PortrayedAgent == agents[portrayed.agent]

\* The number of entries of the sequence s equal to v.
CountIn(s, v) == Cardinality({i \in DOMAIN s : s[i] = v})

\* C1: a call of the Part 2 or Part 3 agent_portrayal on an agent whose
\* wealth is zero or negative returns exactly {size: 10, color: "tab:red"}.
C1_BrokeAgentSmallRed ==
    (/\ portrayed.part \in {2, 3}
     /\ HasWealth(PortrayedAgent)
     /\ PortrayedAgent.wealth <= 0)
    => portrayed.outcome = Returned([size |-> 10, color |-> "tab:red"])

C1_Witness ==
    /\ portrayed.part = 3
    /\ HasWealth(PortrayedAgent)
    /\ PortrayedAgent.wealth < 0
    /\ portrayed.outcome.kind = "return"

\* C2: a call of the Part 2 or Part 3 agent_portrayal on an agent whose
\* wealth is greater than zero returns exactly {size: 50, color: "tab:blue"}.
C2_SolventAgentLargeBlue ==
    (/\ portrayed.part \in {2, 3}
     /\ HasWealth(PortrayedAgent)
     /\ PortrayedAgent.wealth > 0)
    => portrayed.outcome = Returned([size |-> 50, color |-> "tab:blue"])

C2_Witness ==
    /\ portrayed.part = 3
    /\ HasWealth(PortrayedAgent)
    /\ PortrayedAgent.wealth > 0
    /\ portrayed.outcome.kind = "return"

\* C3: once Histogram has built wealth_vals, it has one entry per agent of
\* model.agents, and every wealth value occurs in it as often as among the
\* agents.
C3_WealthValsIsTheAgentsWealth ==
    pc \in {"l308", "l309"} =>
        /\ Len(wealth_vals) = Len(agents)
        /\ \A v \in {agents[i].wealth : i \in DOMAIN agents}
                   \cup {wealth_vals[i] : i \in DOMAIN wealth_vals} :
              CountIn(wealth_vals, v)
                  = Cardinality({i \in DOMAIN agents : agents[i].wealth = v})

C3_Witness ==
    /\ pc = "l308"
    /\ update_counter > 0
    /\ Len(agents) = 3
    /\ agents[1].wealth = agents[3].wealth
    /\ agents[1].wealth # agents[2].wealth
    /\ agents[2].wealth = 0

\* C4: in the histogram on display, the bar over each wealth value drawn is
\* as high as the number of agents with that very value (so no two values
\* share a bar).
C4_OneBarPerWealthValue ==
    (displayed.drawn /\ displayed.data # <<>>) =>
        LET d == displayed.data
        IN \A i \in DOMAIN d :
              displayed.heights[BinOf(d[i], SeqMin(d), SeqMax(d), displayed.bins)]
                  = CountIn(d, d[i])

\* C5: whenever the dashboard is at rest (Histogram is not running and no
\* re-render of it is scheduled), Histogram has re-run once for every
\* signalled model change and the figure on display holds the current
\* wealth of the model's current agents.
C5_DisplayFollowsModel ==
    (pc = "idle" /\ ~pending /\ calls > 0) =>
        /\ rerenders = update_counter
        /\ displayed.drawn
        /\ displayed.id = nfigures
        /\ displayed.data = [i \in 1..Len(agents) |-> agents[i].wealth]

C5_Witness ==
    /\ pc = "idle" /\ ~pending
    /\ update_counter = 2
    /\ rerenders = 2
    /\ Len(agents) = 2
    /\ agents[1].wealth # 1
    /\ displayed.data = <<agents[1].wealth, agents[2].wealth>>

\* The order of an invocation that runs to its end.
FullTrace == <<"update_counter.get", "Figure", "subplots", "wealth_vals",
               "hist", "FigureMatplotlib">>

\* C6: an invocation of Histogram reads update_counter, creates a figure,
\* draws into it and then displays it, in this order; when it returns,
\* every invocation so far has created one figure and displayed one, the
\* figure on display is the one this invocation created, and it has 10
\* bins.
C6_OrderAndOneFigurePerCall ==
    /\ \E k \in 0..Len(FullTrace) : trace = SubSeq(FullTrace, 1, k)
    /\ nfigures \in {calls - 1, calls}
    /\ (pc = "idle" /\ calls > 0) =>
          /\ trace = FullTrace
          /\ nfigures = calls
          /\ ndisplayed = calls
          /\ fig.id = calls
          /\ displayed.id = calls
          /\ displayed.drawn
          /\ displayed.bins = 10
          /\ Len(displayed.heights) = 10

C6_Witness ==
    /\ pc = "idle"
    /\ calls = 3
    /\ displayed.id = 3
    /\ Len(agents) = 3
    /\ trace = FullTrace

\* C7: no step of Histogram changes the model's agents, and a figure
\* displayed by a later invocation on the same model holds the same data,
\* bins and bars as the one displayed before it.
C7_HistogramIdempotent ==
    [][ /\ (pc # "idle" \/ pc' # "idle") => agents' = agents
        /\ (ndisplayed > 0 /\ ndisplayed' = ndisplayed + 1) =>
              /\ displayed'.data = displayed.data
              /\ displayed'.bins = displayed.bins
              /\ displayed'.heights = displayed.heights ]_vars

C7_Witness ==
    /\ ndisplayed = 2
    /\ pc = "idle"
    /\ Len(agents) = 2
    /\ agents[1].wealth # agents[2].wealth

\* C8: a call of agent_portrayal changes neither the agents nor anything
\* else of the model or the dashboard, and it returns what the last call of
\* the same definition returned whenever the two agents' wealth is equal.
C8_PortrayalPure ==
    [][ portrayed' # portrayed =>
          /\ agents' = agents
          /\ UNCHANGED histVars
          /\ (/\ portrayed.part = portrayed'.part
              /\ HasWealth(agents[portrayed.agent])
              /\ HasWealth(agents[portrayed'.agent])
              /\ agents[portrayed.agent].wealth = agents[portrayed'.agent].wealth)
             => portrayed'.outcome = portrayed.outcome ]_vars

C8_Witness ==
    /\ portrayed.part = 2
    /\ portrayed.agent = 2
    /\ HasWealth(agents[1]) /\ HasWealth(agents[2])
    /\ agents[1].wealth = agents[2].wealth

\* C9: a call of the Part 2 or Part 3 agent_portrayal on an agent without
\* wealth raises AttributeError and returns nothing; and on a model with
\* such an agent Histogram never draws and never displays: its invocation
\* ends in the AttributeError.
C9_MissingWealthFails ==
    /\ (portrayed.part \in {2, 3} /\ ~HasWealth(PortrayedAgent))
           => portrayed.outcome = Raises("AttributeError")
    /\ ~AllHaveWealth(agents) =>
          /\ pc \notin {"l308", "l309"}
          /\ ~fig.drawn
          /\ ndisplayed = 0
          /\ displayed = NoFigure
          /\ (pc = "idle" /\ calls > 0) => raised

C9_Witness ==
    /\ pc = "idle" /\ calls > 0 /\ raised
    /\ Len(agents) = 2
    /\ HasWealth(agents[1]) /\ ~HasWealth(agents[2])
    /\ portrayed.part = 2 /\ portrayed.agent = 2
    /\ portrayed.outcome.kind = "raise"

\* C10: on every agent with wealth, Part 2 and Part 3 return the same
\* mapping, and Part 1 returns that mapping exactly when wealth > 0.
C10_ThreeDefinitions ==
    \A i \in DOMAIN agents :
        HasWealth(agents[i]) =>
            /\ agent_portrayal_2(agents[i]) = agent_portrayal_3(agents[i])
            /\ (agents[i].wealth > 0)
                  <=> (agent_portrayal_1(agents[i]) = agent_portrayal_2(agents[i]))
            /\ (agents[i].wealth > 0)
                  <=> (agent_portrayal_1(agents[i]) = agent_portrayal_3(agents[i]))

C10_Witness ==
    /\ portrayed.part = 1
    /\ HasWealth(PortrayedAgent)
    /\ PortrayedAgent.wealth <= 0
    /\ portrayed.outcome # agent_portrayal_2(PortrayedAgent)
    /\ \E j \in DOMAIN agents : HasWealth(agents[j]) /\ agents[j].wealth > 0

====
